---- MODULE Spec2Model ----
(***************************************************************************)
(* Model of the AI Clipper backend (src/main.py, src/schemas.py).          *)
(*                                                                         *)
(* Every HTTP request is one atomic step: the handler runs to completion   *)
(* and leaves its request in req, its response in resp and the adapter     *)
(* calls it made in calls.  The document store is the sequence store of    *)
(* "videojob" documents, in insertion (store-native) order.                *)
(*                                                                         *)
(* Abstractions of values:                                                 *)
(*  - a URL string is a sequence of tokens ("https://", "youtube", "/",    *)
(*    ...); the substring test, HttpUrl validation and HttpUrl             *)
(*    normalisation work on the tokens;                                    *)
(*  - an identifier string is a sequence of one-character strings, an      *)
(*    ObjectId is its 12 bytes;                                            *)
(*  - start_sec / end_sec of a clip request are counted in half seconds,   *)
(*    so that the rounding of the preview URL has ties to decide;          *)
(*  - a confidence is counted in hundredths (91 stands for 0.91);          *)
(*  - an Optional[str] is a sequence of zero or one strings.               *)
(* The module database (db, create_document, get_documents) is not part of *)
(* the sources at hand; it is modelled from section 4.1 of the             *)
(* specification.                                                          *)
(***************************************************************************)
EXTENDS Integers, Sequences, FiniteSets, TLC

VARIABLES db, store, req, resp, calls, issued

vars == <<db, store, req, resp, calls, issued>>

----------------------------------------------------------------------------
(* Bounds *)

MaxJobs == 2
MaxLimit == 3
MaxHalfSec == 3
MaxOtherColls == 11

(* Program constants *)

OidHexLen == 24
CollectionsShown == 10
DefaultLimit == 20

Min(a, b) == IF a < b THEN a ELSE b

----------------------------------------------------------------------------
(* Identifiers: bson.ObjectId and its hexadecimal string form *)

HexLower == <<"0","1","2","3","4","5","6","7","8","9","a","b","c","d","e","f">>
HexUpper == <<"0","1","2","3","4","5","6","7","8","9","A","B","C","D","E","F">>

HexChars ==
    {"0","1","2","3","4","5","6","7","8","9",
     "a","b","c","d","e","f","A","B","C","D","E","F"}

HexVal(c) == CHOOSE v \in 0..15 : HexLower[v + 1] = c \/ HexUpper[v + 1] = c

\* ObjectId.is_valid on a str: 24 hexadecimal characters
IsValidOid(s) == Len(s) = OidHexLen /\ \A i \in 1..Len(s) : s[i] \in HexChars

\* ObjectId(job_id): the 12 bytes the string encodes (case-insensitive)
RECURSIVE ObjectIdOf(_)
ObjectIdOf(s) ==
    IF Len(s) < 2
    THEN <<>>
    ELSE <<HexVal(s[1]) * 16 + HexVal(s[2])>> \o ObjectIdOf(SubSeq(s, 3, Len(s)))

\* str(ObjectId): lower-case hexadecimal, two characters per byte
RECURSIVE OidStr(_)
OidStr(oid) ==
    IF oid = <<>>
    THEN <<>>
    ELSE <<HexLower[(oid[1] \div 16) + 1], HexLower[(oid[1] % 16) + 1]>>
             \o OidStr(Tail(oid))

\* the identifier the store generates for its k-th inserted document
NewOid(k) == <<0, 0, 0, 0, 0, 0, 0, 0, 0, 0, 0, 9 + k>>

----------------------------------------------------------------------------
(* URLs *)

\* "youtube" in req.youtube_url
ContainsYoutube(u) == \E i \in 1..Len(u) : u[i] = "youtube"

\* pydantic HttpUrl: http(s) scheme, a host, then an optional path
IsHttpUrl(u) ==
    /\ Len(u) >= 2
    /\ u[1] \in {"http://", "https://"}
    /\ u[2] \in {"youtube", "vimeo"}
    /\ Len(u) >= 3 => u[3] = "/"

\* pydantic HttpUrl renders a URL without a path with the path "/"
HttpUrl(u) == IF Len(u) = 2 THEN Append(u, "/") ELSE u

----------------------------------------------------------------------------
(* Schemas *)

DetectedMoment(s, e, l, c) ==
    [start_sec |-> s, end_sec |-> e, label |-> l, confidence |-> c]

DemoMomentsReordered ==
    << DetectedMoment(35, 48, "Key point", 88),
       DetectedMoment(5, 12, "Intro punch", 91),
       DetectedMoment(120, 136, "Best moment", 93) >>

DemoMoments ==
    << DetectedMoment(5, 12, "Intro punch", 91),
       DetectedMoment(35, 48, "Key point", 88),
       DetectedMoment(120, 136, "Best moment", 93) >>

VideoJob(url, st, moments) ==
    [youtube_url |-> HttpUrl(url), status |-> st, detected_moments |-> moments]

OverlayText(c, p, s) == [content |-> c, position |-> p, style |-> s]

----------------------------------------------------------------------------
(* Document store adapter (module database, modelled from the specification) *)

\* insert: raises when the connection is unavailable
create_document_raises(d) == d # "ok"

\* insert: appends the document under a newly generated identifier and
\* returns the identifier as a string
create_document(s, data) ==
    LET oid == NewOid(Len(s) + 1)
    IN  [store |-> Append(s, [_id |-> oid,
                              youtube_url |-> data.youtube_url,
                              status |-> data.status,
                              detected_moments |-> data.detected_moments]),
         id |-> OidStr(oid)]

\* find: raises when the connection is unavailable
get_documents_raises(d) == d # "ok"

\* find: the possible results: up to limit documents in store order.  The
\* specification fixes no result for a negative limit: any number of
\* documents may come back.
get_documents(s, limit) ==
    IF limit >= 0
    THEN {SubSeq(s, 1, Min(limit, Len(s)))}
    ELSE {SubSeq(s, 1, k) : k \in 0..Len(s)}

\* db["videojob"].find_one raises when db is None or the server is unreachable
find_one_raises(d) == d # "ok"

\* findOne: the first document with the identifier, as a sequence of zero
\* or one documents
find_one(s, oid) ==
    LET m == {i \in 1..Len(s) : s[i]._id = oid}
    IN  IF m = {} THEN <<>> ELSE <<s[CHOOSE i \in m : \A j \in m : i <= j]>>

\* listCollections: "videojob" exists once a job was inserted; the other
\* collections of the database are not under the control of this program
RECURSIVE OtherCollections(_)
OtherCollections(n) ==
    IF n = 0 THEN <<>> ELSE Append(OtherCollections(n - 1), <<"other", n>>)

list_collection_names(s, others) ==
    (IF s = <<>> THEN <<>> ELSE << <<"videojob", 0>> >>) \o OtherCollections(others)

----------------------------------------------------------------------------
(* Responses *)

NoBody == <<>>

Ok(op, body) == [op |-> op, status |-> 200, detail |-> "", body |-> body]

\* raise HTTPException(status_code, detail)
HTTPException(op, code, detail) ==
    [op |-> op, status |-> code, detail |-> detail, body |-> NoBody]

\* an exception that leaves the handler: the framework answers 500
Unhandled(op) ==
    [op |-> op, status |-> 500, detail |-> "Internal Server Error", body |-> NoBody]

\* a stored document with its identifier exposed as the string id and the
\* raw _id removed
WithId(d) ==
    [id |-> OidStr(d._id), youtube_url |-> d.youtube_url,
     status |-> d.status, detected_moments |-> d.detected_moments]

\* the loop of list_jobs over the documents found
RECURSIVE Normalised(_)
Normalised(docs) ==
    IF docs = <<>> THEN <<>> ELSE <<WithId(docs[1])>> \o Normalised(Tail(docs))

\* f"{x:.0f}" of a number of half seconds: round half to even
FormatSecondsHalfUp(h) == (h + 1) \div 2

FormatSeconds(h) ==
    LET q == h \div 2
    IN  IF h % 2 = 0 THEN q ELSE IF q % 2 = 0 THEN q ELSE q + 1

PreviewUrl(s, e) ==
    <<"https://placehold.co/1280x720?text=Clip+", FormatSeconds(s), "-",
      FormatSeconds(e), "s">>

----------------------------------------------------------------------------
(* Request inputs *)

UrlInputs ==
    { <<>>,
      <<"youtube">>,
      <<"ftp://", "youtube">>,
      <<"https://", "vimeo">>,
      <<"https://", "youtube">>,
      <<"https://", "youtube", "/">>,
      <<"https://", "vimeo", "/", "youtube">> }

RECURSIVE UpperCase(_)
UpperCase(s) ==
    IF s = <<>>
    THEN <<>>
    ELSE <<IF \E v \in 1..16 : HexLower[v] = s[1]
           THEN HexUpper[CHOOSE v \in 1..16 : HexLower[v] = s[1]]
           ELSE s[1]>> \o UpperCase(Tail(s))

RECURSIVE Repeat(_, _)
Repeat(c, n) == IF n = 0 THEN <<>> ELSE <<c>> \o Repeat(c, n - 1)

\* identifiers of the jobs the store can hold, one well-formed identifier
\* beyond them, an upper-case spelling, and malformed identifiers
JobIdInputs ==
    {OidStr(NewOid(k)) : k \in 1..(MaxJobs + 1)}
        \cup {UpperCase(OidStr(NewOid(1)))}
        \cup {<<"a", "b", "c">>, Repeat("g", OidHexLen)}

\* the identifiers of clip requests: the first job's, a well-formed one of no
\* job, and a malformed one
ClipJobIdInputs ==
    {OidStr(NewOid(1)), OidStr(NewOid(MaxJobs + 1)), <<"a", "b", "c">>}

LimitInputs == (-1..MaxLimit) \cup {DefaultLimit}

Overlay1 == OverlayText("Wow", "top", "title")
Overlay2 == OverlayText("lol", "bottom", "caption")

\* overlays, animation and emoji of clip requests
ClipDecorInputs ==
    { << <<>>, "bounce", <<>> >>,
      << <<Overlay1, Overlay2>>, "fade", <<>> >>,
      << <<Overlay2, Overlay1>>, "pop", <<"fire">> >> }

ClipRequest(id, s, e, decor) ==
    [op |-> "clip", job_id |-> id, start_sec |-> s, end_sec |-> e,
     overlays |-> decor[1], animation |-> decor[2], emoji |-> decor[3]]

----------------------------------------------------------------------------
(* State *)

\* db: "none" (db is None), "error" (a handle whose operations raise) or "ok"
Init ==
    /\ db \in {"none", "error", "ok"}
    /\ store = <<>>
    /\ req = [op |-> "none"]
    /\ resp = [op |-> "none", status |-> 200, detail |-> "", body |-> NoBody]
    /\ calls = <<>>
    /\ issued = {}

----------------------------------------------------------------------------
(* Handlers *)

\* GET /
read_root ==
    /\ req' = [op |-> "root"]
    /\ resp' = Ok("root", [message |-> "AI Clipper Backend Running"])
    /\ calls' = <<>>
    /\ UNCHANGED <<db, store, issued>>

\* the collections listed without the slice
test_database_unsliced(urlSet, nameSet, others) ==
    LET base == [backend |-> "Running",
                 database |-> "Not Available",
                 database_url |-> "None",
                 database_name |-> "None",
                 connection_status |-> "Not Connected",
                 collections |-> <<>>]
        withEnv == [base EXCEPT
                      !.database_url = IF urlSet THEN "Set" ELSE "Not Set",
                      !.database_name = IF nameSet THEN "Set" ELSE "Not Set"]
    IN  /\ req' = [op |-> "test", database_url |-> urlSet,
                    database_name |-> nameSet, others |-> others]
        /\ IF db = "none"
           THEN /\ resp' = Ok("test", [base EXCEPT
                              !.database = "Available but not initialized"])
                /\ calls' = <<>>
           ELSE IF db = "error"
           THEN /\ resp' = Ok("test", [withEnv EXCEPT
                              !.database = "Connected but Error"])
                /\ calls' = <<"list_collection_names">>
           ELSE /\ resp' = Ok("test", [withEnv EXCEPT
                              !.collections = list_collection_names(store, others),
                              !.database = "Connected & Working",
                              !.connection_status = "Connected"])
                /\ calls' = <<"list_collection_names">>
        /\ UNCHANGED <<db, store, issued>>

\* GET /test; the two environment variables and the other collections of the
\* database are read at request time and recorded with the request
test_database(urlSet, nameSet, others) ==
    LET base == [backend |-> "Running",
                 database |-> "Not Available",
                 database_url |-> "None",
                 database_name |-> "None",
                 connection_status |-> "Not Connected",
                 collections |-> <<>>]
        withEnv == [base EXCEPT
                      !.database_url = IF urlSet THEN "Set" ELSE "Not Set",
                      !.database_name = IF nameSet THEN "Set" ELSE "Not Set"]
        collections == list_collection_names(store, others)
    IN  /\ req' = [op |-> "test", database_url |-> urlSet,
                    database_name |-> nameSet, others |-> others]
        /\ IF db = "none"
           THEN /\ resp' = Ok("test", [base EXCEPT
                              !.database = "Available but not initialized"])
                /\ calls' = <<>>
           ELSE IF db = "error"
           THEN /\ resp' = Ok("test", [withEnv EXCEPT
                              !.database = "Connected but Error"])
                /\ calls' = <<"list_collection_names">>
           ELSE /\ resp' = Ok("test", [withEnv EXCEPT
                              !.collections =
                                  SubSeq(collections, 1,
                                         Min(CollectionsShown, Len(collections))),
                              !.database = "Connected & Working",
                              !.connection_status = "Connected"])
                /\ calls' = <<"list_collection_names">>
        /\ UNCHANGED <<db, store, issued>>

\* POST /api/analyze, with the outcome of the URL check and the URL put in
\* the response as parameters
analyze_with(url, rejected, returned_url) ==
    /\ req' = [op |-> "analyze", youtube_url |-> url]
    /\ IF rejected
       THEN /\ resp' = HTTPException("analyze", 400,
                                     "URL harus berupa link YouTube yang valid")
            /\ calls' = <<>>
            /\ UNCHANGED <<store, issued>>
       ELSE IF ~IsHttpUrl(url)
       THEN \* VideoJob(...) raises a validation error inside the handler
            /\ resp' = Unhandled("analyze")
            /\ calls' = <<>>
            /\ UNCHANGED <<store, issued>>
       ELSE IF create_document_raises(db)
       THEN /\ resp' = Unhandled("analyze")
            /\ calls' = <<"create_document">>
            /\ UNCHANGED <<store, issued>>
       ELSE LET job == VideoJob(url, "analyzed", DemoMoments)
                created == create_document(store, job)
                body == [id |-> created.id,
                         youtube_url |-> returned_url,
                         status |-> job.status,
                         detected_moments |-> job.detected_moments]
            IN  /\ Len(store) < MaxJobs
                /\ store' = created.store
                /\ resp' = Ok("analyze", body)
                /\ calls' = <<"create_document">>
                /\ issued' = issued \cup {body}
    /\ UNCHANGED db

\* the URL check written with "and" in place of "or"
analyze_youtube_and(url) ==
    analyze_with(url, url = <<>> /\ ~ContainsYoutube(url), HttpUrl(url))

\* the response built from the request's URL in place of the job's
analyze_youtube_raw(url) ==
    analyze_with(url, url = <<>> \/ ~ContainsYoutube(url), url)

analyze_youtube(url) ==
    analyze_with(url, url = <<>> \/ ~ContainsYoutube(url), HttpUrl(url))

\* GET /api/jobs, with the limit handed to the adapter as a parameter
list_jobs_with(limit, passed) ==
    /\ req' = [op |-> "list", limit |-> limit]
    /\ calls' = <<"get_documents">>
    /\ IF get_documents_raises(db)
       THEN resp' = Unhandled("list")
       ELSE \E docs \in get_documents(store, passed) :
                resp' = Ok("list", Normalised(docs))
    /\ UNCHANGED <<db, store, issued>>

\* the default limit handed to the adapter whatever the request's limit
list_jobs_default(limit) == list_jobs_with(limit, DefaultLimit)

list_jobs(limit) == list_jobs_with(limit, limit)

\* GET /api/jobs/{job_id}
get_job(job_id) ==
    /\ req' = [op |-> "get", job_id |-> job_id]
    /\ IF find_one_raises(db)
       THEN /\ resp' = HTTPException("get", 400, "ID tidak valid")
            /\ calls' = <<"find_one">>
       ELSE IF ~IsValidOid(job_id)
       THEN /\ resp' = HTTPException("get", 400, "ID tidak valid")
            /\ calls' = <<>>
       ELSE LET doc == find_one(store, ObjectIdOf(job_id))
            IN  /\ calls' = <<"find_one">>
                /\ IF doc = <<>>
                   THEN resp' = HTTPException("get", 404, "Job tidak ditemukan")
                   ELSE resp' = Ok("get", WithId(doc[1]))
    /\ UNCHANGED <<db, store, issued>>

\* POST /api/clip, with the time-range check and the store after the request
\* as parameters
create_clip_with(job_id, s, e, decor, range_invalid, store_after) ==
    LET r == ClipRequest(job_id, s, e, decor) IN
    /\ req' = r
    /\ IF find_one_raises(db)
       THEN /\ resp' = HTTPException("clip", 400, "Job ID tidak valid")
            /\ calls' = <<"find_one">>
            /\ UNCHANGED store
       ELSE IF ~IsValidOid(r.job_id)
       THEN /\ resp' = HTTPException("clip", 400, "Job ID tidak valid")
            /\ calls' = <<>>
            /\ UNCHANGED store
       ELSE /\ calls' = <<"find_one">>
            /\ IF range_invalid
               THEN /\ resp' = HTTPException("clip", 400,
                                    "end_sec harus lebih besar dari start_sec")
                    /\ UNCHANGED store
               ELSE /\ resp' = Ok("clip",
                            [job_id |-> r.job_id,
                             preview_url |-> PreviewUrl(r.start_sec, r.end_sec),
                             start_sec |-> r.start_sec,
                             end_sec |-> r.end_sec,
                             overlays |-> r.overlays,
                             animation |-> r.animation,
                             emoji |-> r.emoji])
                    /\ store' = store_after
    /\ UNCHANGED <<db, issued>>

\* the time-range check written with "<" in place of "<="
create_clip_lt(job_id, s, e, decor) ==
    create_clip_with(job_id, s, e, decor, e < s, store)

RECURSIVE MarkRendered(_, _)
MarkRendered(s, oid) ==
    IF s = <<>>
    THEN <<>>
    ELSE <<IF s[1]._id = oid THEN [s[1] EXCEPT !.status = "rendered"] ELSE s[1]>>
             \o MarkRendered(Tail(s), oid)

\* a clip that marks its job as rendered
create_clip_rendered(job_id, s, e, decor) ==
    create_clip_with(job_id, s, e, decor, e <= s,
                     MarkRendered(store, ObjectIdOf(job_id)))

create_clip(job_id, s, e, decor) ==
    create_clip_with(job_id, s, e, decor, e <= s, store)

----------------------------------------------------------------------------
(* Specification *)

Next ==
    \/ read_root
    \/ \E urlSet \in BOOLEAN, nameSet \in BOOLEAN, others \in 0..MaxOtherColls :
           test_database(urlSet, nameSet, others)
    \/ \E url \in UrlInputs : analyze_youtube(url)
    \/ \E limit \in LimitInputs : list_jobs(limit)
    \/ \E job_id \in JobIdInputs : get_job(job_id)
    \/ \E job_id \in ClipJobIdInputs, s \in 0..MaxHalfSec, e \in 0..MaxHalfSec,
          decor \in ClipDecorInputs :
           create_clip(job_id, s, e, decor)

Spec == Init /\ [][Next]_vars

----------------------------------------------------------------------------
(* Properties *)

IsPrefix(s, t) == Len(s) <= Len(t) /\ SubSeq(t, 1, Len(s)) = s

ValidYoutubeUrl(u) == u # <<>> /\ ContainsYoutube(u) /\ IsHttpUrl(u)

\* what a successful analyze does in the step from the unprimed to the primed
\* state: one job appended, the fixed three moments returned in order under
\* the identifier the store generated
AnalyzeSucceeds ==
    /\ resp'.status = 200
    /\ Len(store') = Len(store) + 1
    /\ IsPrefix(store, store')
    /\ resp'.body.status = "analyzed"
    /\ resp'.body.detected_moments =
           << [start_sec |-> 5, end_sec |-> 12, label |-> "Intro punch",
               confidence |-> 91],
              [start_sec |-> 35, end_sec |-> 48, label |-> "Key point",
               confidence |-> 88],
              [start_sec |-> 120, end_sec |-> 136, label |-> "Best moment",
               confidence |-> 93] >>
    /\ resp'.body.id = OidStr(store'[Len(store')]._id)
    /\ \A i \in 1..Len(store) : store[i]._id # store'[Len(store')]._id

C2_NoUnhandledFault == resp.status \in {200, 400, 404}

RoundsTo(r, h) ==
    /\ 2 * r - h \in {-1, 0, 1}
    /\ 2 * r # h => r % 2 = 0

ClipEchoes ==
    /\ resp.status = 200
    /\ resp.body.job_id = req.job_id
    /\ resp.body.start_sec = req.start_sec
    /\ resp.body.end_sec = req.end_sec
    /\ resp.body.overlays = req.overlays
    /\ resp.body.animation = req.animation
    /\ resp.body.emoji = req.emoji
    /\ Len(resp.body.preview_url) = 5
    /\ RoundsTo(resp.body.preview_url[2], req.start_sec)
    /\ RoundsTo(resp.body.preview_url[4], req.end_sec)

\* C3 as stated: every clip request with start_sec < end_sec succeeds with
\* 200 and echoes job_id, start_sec, end_sec, overlays, animation and emoji,
\* with a preview_url of the rounded seconds, whatever the job_id.
C3_ClipAlwaysSucceeds ==
    (req.op = "clip" /\ req.start_sec < req.end_sec) => ClipEchoes

\* C3 amended: a clip request with start_sec < end_sec succeeds with 200 and
\* echoes its fields, with a preview_url of the rounded seconds, when its
\* job_id is well-formed (the job existing or not) and the job lookup does
\* not raise; with a malformed job_id, or a lookup that raises, it fails with
\* 400 "Job ID tidak valid" and returns no ClipResult.
C3_ClipSucceedsForWellFormedId ==
    (req.op = "clip" /\ req.start_sec < req.end_sec) =>
        IF IsValidOid(req.job_id) /\ db = "ok"
        THEN ClipEchoes
        ELSE /\ resp.status = 400
             /\ resp.detail = "Job ID tidak valid"
             /\ resp.body = NoBody

\* a clip of 0.5 s to 1.5 s with two overlays for a well-formed identifier of
\* no stored job was created
C3_Witness ==
    /\ req.op = "clip"
    /\ resp.status = 200
    /\ req.start_sec = 1
    /\ req.end_sec = 3
    /\ Len(req.overlays) = 2
    /\ \A i \in 1..Len(store) : OidStr(store[i]._id) # req.job_id

\* C4: every clip request with start_sec >= end_sec fails with 400 and
\* returns no ClipResult, whatever the job_id and the store's availability;
\* with a well-formed job_id and the store available the detail is "end_sec
\* harus lebih besar dari start_sec", with a malformed job_id it is "Job ID
\* tidak valid".
C4_InvalidRangeRejected ==
    (req.op = "clip" /\ req.start_sec >= req.end_sec) =>
        /\ resp.status = 400
        /\ resp.body = NoBody
        /\ (IsValidOid(req.job_id) /\ db = "ok") =>
               resp.detail = "end_sec harus lebih besar dari start_sec"
        /\ ~IsValidOid(req.job_id) => resp.detail = "Job ID tidak valid"

\* a clip with start_sec = end_sec for a stored job was rejected
C4_Witness ==
    /\ req.op = "clip"
    /\ req.start_sec = req.end_sec
    /\ resp.status = 400
    /\ resp.detail = "end_sec harus lebih besar dari start_sec"
    /\ \E i \in 1..Len(store) : OidStr(store[i]._id) = req.job_id

WellFormedId(s) == Len(s) = 24 /\ \A i \in 1..Len(s) : s[i] \in HexChars

\* the stored jobs a well-formed identifier string names
Named(s) == {i \in 1..Len(store) : UpperCase(OidStr(store[i]._id)) = UpperCase(s)}

\* C5: get job answers 400 "ID tidak valid" exactly for a malformed
\* identifier, 404 "Job tidak ditemukan" for a well-formed identifier of no
\* stored job, and 200 with the job and its id for a well-formed identifier
\* of a stored job, in every store state, the store being available or not.
C5_GetJobOutcome ==
    req.op = "get" =>
        IF ~WellFormedId(req.job_id)
        THEN resp.status = 400 /\ resp.detail = "ID tidak valid"
        ELSE IF Named(req.job_id) = {}
        THEN resp.status = 404 /\ resp.detail = "Job tidak ditemukan"
        ELSE /\ resp.status = 200
             /\ \E i \in Named(req.job_id) :
                    /\ resp.body.id = OidStr(store[i]._id)
                    /\ resp.body.youtube_url = store[i].youtube_url
                    /\ resp.body.status = store[i].status
                    /\ resp.body.detected_moments = store[i].detected_moments

\* C6: a get job with the id an analyze returned answers 200 with the
\* youtube_url, status and detected_moments (in order) of that analyze
\* response, after any interleaving of other requests.
C6_RoundTrip ==
    \A a \in issued :
        (req.op = "get" /\ req.job_id = a.id) =>
            /\ resp.status = 200
            /\ resp.body.youtube_url = a.youtube_url
            /\ resp.body.status = a.status
            /\ resp.body.detected_moments = a.detected_moments

\* the first of two stored jobs was fetched by the id analyze returned
C6_Witness ==
    /\ req.op = "get"
    /\ resp.status = 200
    /\ Len(store) = 2
    /\ req.job_id = OidStr(store[1]._id)
    /\ \E a \in issued : a.id = req.job_id /\ Len(a.youtube_url) = 3

ListEntriesAreJobs ==
    \A i \in 1..Len(resp.body) :
        /\ i <= Len(store)
        /\ DOMAIN resp.body[i] = {"id", "youtube_url", "status", "detected_moments"}
        /\ Len(resp.body[i].id) = 24
        /\ UpperCase(resp.body[i].id) = UpperCase(OidStr(store[i]._id))
        /\ resp.body[i].youtube_url = store[i].youtube_url
        /\ resp.body[i].status = store[i].status
        /\ resp.body[i].detected_moments = store[i].detected_moments

\* C7 as stated: for every limit, negative and zero included, list jobs
\* returns at most limit entries (min(limit, stored jobs) for limit >= 1),
\* each a stored job with its identifier as string id and no raw _id.
C7_ListAtMostLimit ==
    (req.op = "list" /\ resp.status = 200) =>
        /\ Len(resp.body) <= req.limit
        /\ req.limit >= 1 => Len(resp.body) = Min(req.limit, Len(store))
        /\ ListEntriesAreJobs

\* C7 amended: for every limit >= 0 (default 20), list jobs returns exactly
\* min(limit, stored jobs) entries, hence at most limit, each a stored job
\* with its identifier as string id and no raw _id.
C7_ListAtMostNonNegativeLimit ==
    (req.op = "list" /\ resp.status = 200 /\ req.limit >= 0) =>
        /\ Len(resp.body) <= req.limit
        /\ Len(resp.body) = Min(req.limit, Len(store))
        /\ ListEntriesAreJobs

\* two jobs are stored and a list with limit 1 returned one entry
C7_Witness ==
    /\ req.op = "list"
    /\ resp.status = 200
    /\ req.limit = 1
    /\ Len(store) = 2
    /\ Len(resp.body) = 1

\* C8: an analyze request whose URL is empty or lacks "youtube" fails with
\* 400 "URL harus berupa link YouTube yang valid", attempts no store
\* operation and leaves the store unchanged.
C8_RejectedAnalyzeLeavesStore ==
    [][(req'.op = "analyze"
            /\ (req'.youtube_url = <<>> \/ ~ContainsYoutube(req'.youtube_url)))
          => /\ resp'.status = 400
             /\ resp'.detail = "URL harus berupa link YouTube yang valid"
             /\ resp'.body = NoBody
             /\ calls' = <<>>
             /\ store' = store]_vars

\* a well-formed URL without "youtube" was rejected while a job is stored
C8_Witness ==
    /\ req.op = "analyze"
    /\ req.youtube_url = <<"https://", "vimeo">>
    /\ resp.status = 400
    /\ db = "ok"
    /\ Len(store) >= 1

\* C9: the store is append-only and only analyze writes to it: every stored
\* job stays with unchanged fields, and list, get, clip and health requests
\* leave the store unchanged.
C9_AppendOnly ==
    [][/\ IsPrefix(store, store')
       /\ store' # store => req'.op = "analyze"
       /\ req'.op # "analyze" => store' = store]_vars

\* a clip was created for a stored job, which is still "analyzed"
C9_Witness ==
    /\ req.op = "clip"
    /\ resp.status = 200
    /\ \E i \in 1..Len(store) :
           /\ OidStr(store[i]._id) = req.job_id
           /\ store[i].status = "analyzed"
           /\ Len(store[i].detected_moments) = 3

\* C10: GET /test always answers 200 with exactly the six keys; collections
\* has at most 10 names; connection_status is "Connected" exactly when
\* listing the collections succeeded, else "Not Connected" with no
\* collections.
C10_HealthNeverFails ==
    req.op = "test" =>
        /\ resp.status = 200
        /\ DOMAIN resp.body = {"backend", "database", "database_url",
                               "database_name", "connection_status",
                               "collections"}
        /\ Len(resp.body.collections) <= 10
        /\ resp.body.connection_status = "Connected" <=> db = "ok"
        /\ resp.body.connection_status # "Connected" =>
               /\ resp.body.connection_status = "Not Connected"
               /\ resp.body.collections = <<>>

\* the database holds more than 10 collections and the check listed 10
C10_Witness ==
    /\ req.op = "test"
    /\ resp.body.connection_status = "Connected"
    /\ store # <<>>
    /\ req.others >= 10
    /\ Len(resp.body.collections) = 10

====
